---- MODULE Spec2Model ----
(***************************************************************************)
(* qxf2qif: conversion of an OFX/SGML (QFX) buffer to QIF bank records.    *)
(* Model of src/qxf2qif.cpp.  Text is a sequence of character codes        *)
(* (ASCII); a C pointer into a NUL-terminated string is modelled by the    *)
(* string that starts there (a suffix) or by a 1-based index, 0 for NULL.  *)
(* Input buffers hold no NUL byte.                                         *)
(***************************************************************************)
EXTENDS Integers, Sequences, FiniteSets, TLC

VARIABLES
    buf,               \* main: the whole input file (read_file_all)
    memoFlag,          \* main: -m / --memo
    scan,              \* main: scan cursor, index into buf
    fout,              \* the output file: the strings written, one per fprintf
    numTransactions,   \* main: emitted-record counter
    printMemoWarning,  \* main: a memo was present but not written
    pc,                \* "loop" while in the record loop, "done" after it
    records,           \* history: the locals of every loop iteration so far
    call               \* one call of a pure function, with its result

vars == <<buf, memoFlag, scan, fout, numTransactions, printMemoWarning, pc,
          records, call>>

---------------------------------------------------------------------------
(* Bounds of the model *)

MaxRecords == 3      \* records in an input buffer
MaxLiveRecords == 2  \* the same, where termination is checked
MaxTagTokens == 4    \* tokens in a slice given to the tag extractor
MaxDateLen == 9      \* characters in a date token
MaxOverrun == 1      \* a long field exceeds MAX_FIELD - 1 by at most this

(* Program constants *)

MAX_FIELD == 4096
QIFDATE_SIZE == 16

---------------------------------------------------------------------------
(* ctype.h and string helpers *)

Min(S) == CHOOSE x \in S : \A y \in S : x <= y
Max(S) == CHOOSE x \in S : \A y \in S : x >= y

\* F applied to the value of v (v is evaluated once).
Let(v, F(_)) == CHOOSE y \in {F(x) : x \in {v}} : TRUE

isspace(c) == c \in {9, 10, 11, 12, 13, 32}
isdigit(c) == c \in 48..57
tolower(c) == IF c \in 65..90 THEN c + 32 ELSE c

\* The first n characters of s (all of s when it is shorter).
Prefix(s, n) == SubSeq(s, 1, IF n < Len(s) THEN n ELSE Len(s))

\* tolower(*hay) == tolower(*needle)
FirstAt(s, i, needle) == tolower(s[i]) = tolower(needle[1])

\* strncasecmp(s + i - 1, needle, strlen(needle)) == 0
MatchAt(s, i, needle) ==
    /\ i + Len(needle) - 1 <= Len(s)
    /\ \A k \in 1..Len(needle) : tolower(s[i + k - 1]) = tolower(needle[k])

\* A pointer is a string s and an index from into it (Len(s) + 1: its NUL).
\* Index of the first case-insensitive occurrence of needle at or after from,
\* 0 for NULL.
strcasestr_simple(s, from, needle) ==
    IF needle = <<>> THEN from
    ELSE IF \E i \in from..Len(s) : FirstAt(s, i, needle) /\ MatchAt(s, i, needle)
    THEN CHOOSE i \in from..Len(s) :
            /\ FirstAt(s, i, needle) /\ MatchAt(s, i, needle)
            /\ \A j \in from..(i - 1) :
                  ~(FirstAt(s, j, needle) /\ MatchAt(s, j, needle))
    ELSE 0

\* strchr(s + from - 1, c): index of the first c at or after from, 0 for NULL.
strchr(s, from, c) ==
    IF \E i \in from..Len(s) : s[i] = c
    THEN CHOOSE i \in from..Len(s) :
            /\ s[i] = c
            /\ \A j \in from..(i - 1) : s[j] # c
    ELSE 0

\* Tag names used by main.
TAG_DTPOSTED == <<68, 84, 80, 79, 83, 84, 69, 68>>   \* "DTPOSTED"
TAG_TRNAMT == <<84, 82, 78, 65, 77, 84>>             \* "TRNAMT"
TAG_NAME == <<78, 65, 77, 69>>                       \* "NAME"
TAG_MEMO == <<77, 69, 77, 79>>                       \* "MEMO"
STMTTRN_OPEN == <<60, 83, 84, 77, 84, 84, 82, 78>>            \* "<STMTTRN"
STMTTRN_CLOSE == <<60, 47, 83, 84, 77, 84, 84, 82, 78, 62>>   \* "</STMTTRN>"

\* snprintf(opentag, 64, "<%s>", tag) and snprintf(closetag, 64, "</%s>", tag)
OpenTag(tag) == <<60>> \o tag \o <<62>>
CloseTag(tag) == <<60, 47>> \o tag \o <<62>>

\* Variant: without a close marker the content runs to the end of the string.
extract_tag_content_toend(s, start, tag, out_len) ==
    Let(strcasestr_simple(s, start, OpenTag(tag)), LAMBDA p0 :
        IF Len(tag) + 3 >= 64 \/ p0 = 0
        THEN [ret |-> 0, out |-> <<>>]
        ELSE Let(p0 + Len(tag) + 2, LAMBDA p :
             Let(strcasestr_simple(s, p, CloseTag(tag)), LAMBDA q :
             Let(IF q # 0 THEN q - p ELSE Len(s) + 1 - p, LAMBDA len0 :
             Let(IF len0 >= out_len THEN out_len - 1 ELSE len0, LAMBDA copylen :
                 [ret |-> 1, out |-> SubSeq(s, p, p + copylen - 1)])))))

\* The pointer 'start' is index start of the string s.  out is left untouched
\* (the caller zero-initialised it: the empty string) when 0 is returned.
\* p0: the open marker; p: the content start; q: the close marker; r: the
\* end of the fallback copy, at the next '<' or at the NUL.
extract_tag_content(s, start, tag, out_len) ==
    Let(OpenTag(tag), LAMBDA opentag :
    Let(CloseTag(tag), LAMBDA closetag :
    Let(strcasestr_simple(s, start, opentag), LAMBDA p0 :
        IF Len(tag) + 3 >= 64 \/ p0 = 0
        THEN [ret |-> 0, out |-> <<>>]
        ELSE Let(p0 + Len(opentag), LAMBDA p :
             Let(strcasestr_simple(s, p, closetag), LAMBDA q :
             Let(IF q # 0 THEN 0 ELSE strchr(s, p, 60), LAMBDA lt :
             Let(IF lt = 0 THEN Len(s) + 1 ELSE lt, LAMBDA r :
             Let(IF q # 0 THEN q - p ELSE r - p, LAMBDA len0 :
             Let(IF len0 >= out_len THEN out_len - 1 ELSE len0, LAMBDA copylen :
                 [ret |-> 1, out |-> SubSeq(s, p, p + copylen - 1)])))))))))

trim_inplace(s) ==
    Let({i \in 1..Len(s) : ~isspace(s[i])}, LAMBDA keep :
        IF keep = {} THEN <<>> ELSE SubSeq(s, Min(keep), Max(keep)))

\* for (p = s; *p; ++p) if (*p == '\r' || *p == '\n') *p = ' ';
Sanitize(s) == [i \in 1..Len(s) |-> IF s[i] \in {13, 10} THEN 32 ELSE s[i]]

\* Variant: day and month exchanged.
ofxdate_to_ddmmyyyy(token, out, outlen) ==
    IF Len(token) < 8 \/ outlen < 11 \/ \E i \in 1..8 : ~isdigit(token[i])
    THEN [ret |-> 0, out |-> out]
    ELSE [ret |-> 1,
          out |-> <<token[7], token[8], 47, token[5], token[6], 47,
                    token[1], token[2], token[3], token[4]>>]

\* out: the caller's buffer, returned unchanged on failure.
ofxdate_to_mmddyyyy(token, out, outlen) ==
    IF Len(token) < 8 \/ outlen < 11
    THEN [ret |-> 0, out |-> out]
    ELSE IF \E i \in 1..8 : ~isdigit(token[i])
    THEN [ret |-> 0, out |-> out]
    ELSE [ret |-> 1,
          out |-> Prefix(<<token[5], token[6], 47, token[7], token[8], 47,
                           token[1], token[2], token[3], token[4]>>, outlen - 1)]

\* The pointer 'buf' is index pos of the string b; bufend is not used.
\* p: the "<STMTTRN" found; gt: the '>' after it; close: the "</STMTTRN>".
find_next_stmttrn(b, pos) ==
    Let(strcasestr_simple(b, pos, STMTTRN_OPEN), LAMBDA p :
    Let(IF p = 0 THEN 0 ELSE strchr(b, p, 62), LAMBDA gt :
    Let(IF gt = 0 THEN 0 ELSE strcasestr_simple(b, gt + 1, STMTTRN_CLOSE), LAMBDA close :
        IF p = 0 \/ gt = 0 \/ close = 0
        THEN [ret |-> 0, startptr |-> 0, endptr |-> 0]
        ELSE [ret |-> 1, startptr |-> gt + 1,
              endptr |-> close + Len(STMTTRN_CLOSE)])))

---------------------------------------------------------------------------
(* The body of main's record loop *)

\* char qifdate[16] = {0}; first conversion, then the retry on 8 characters.
DateFirstPass(dtposted) ==
    LET r1 == ofxdate_to_mmddyyyy(dtposted, <<>>, QIFDATE_SIZE)
    IN  IF r1.ret = 1 THEN r1.out
        ELSE IF Len(dtposted) >= 8
        THEN LET r2 == ofxdate_to_mmddyyyy(Prefix(dtposted, 8), r1.out, QIFDATE_SIZE)
             IN  IF r2.ret = 1 THEN r2.out ELSE <<>>
        ELSE r1.out

\* The fallback taken on the emit path when qifdate is still empty.
DateFallback(dtposted, qifdate) ==
    IF qifdate # <<>> THEN qifdate
    ELSE IF Len(dtposted) >= 8
    THEN LET r3 == ofxdate_to_mmddyyyy(Prefix(dtposted, 8), qifdate, QIFDATE_SIZE)
         IN  IF r3.ret = 1 THEN r3.out ELSE Prefix(dtposted, QIFDATE_SIZE - 1)
    ELSE Prefix(dtposted, QIFDATE_SIZE - 1)

\* Strip commas from the amount.
AmtClean(trnamt) ==
    LET kept == Prefix(trnamt, MAX_FIELD - 1)
        F[i \in 0..Len(kept)] ==
            IF i = 0 THEN <<>>
            ELSE IF kept[i] = 44 THEN F[i - 1] ELSE Append(F[i - 1], kept[i])
    IN  F[Len(kept)]

\* One field of the record whose content starts at block_start, after
\* extraction and trimming.
Field(b, block_start, tag) ==
    Let(extract_tag_content(b, block_start, tag, MAX_FIELD).out,
        LAMBDA raw : trim_inplace(raw))

\* The four fields, name and memo sanitized.
Fields(b, block_start) ==
    [dtposted |-> Field(b, block_start, TAG_DTPOSTED),
     trnamt |-> Field(b, block_start, TAG_TRNAMT),
     name |-> Let(Field(b, block_start, TAG_NAME), LAMBDA name : Sanitize(name)),
     memo |-> Let(Field(b, block_start, TAG_MEMO), LAMBDA memo : Sanitize(memo))]

DLine(qifdate) == IF qifdate # <<>> THEN <<68>> \o qifdate \o <<10>> ELSE <<68, 10>>

PLine(name) ==
    IF name = <<>>
    THEN <<80, 40, 117, 110, 107, 110, 111, 119, 110, 41, 10>>   \* "P(unknown)\n"
    ELSE <<80>> \o Sanitize(name) \o <<10>>

\* Variant: the memo line is written whatever the flag.
MLines_unconditional(memo, flag) ==
    IF memo # <<>> THEN << <<77>> \o memo \o <<10>> >> ELSE <<>>

\* The memo line, if one is written.
MLines(memo, flag) == IF memo # <<>> /\ flag THEN << <<77>> \o memo \o <<10>> >> ELSE <<>>

\* Variant: the warning follows the last record only.
MemoWarning_last(memo, flag, warned) == memo # <<>> /\ ~flag

MemoWarning(memo, flag, warned) == IF memo # <<>> /\ ~flag THEN TRUE ELSE warned

\* The strings written for one record, in order.
Block(f, qifdate, flag) ==
    <<DLine(qifdate), PLine(f.name)>> \o MLines(f.memo, flag)
        \o << <<84>> \o AmtClean(f.trnamt) \o <<10>>,   \* "T%s\n"
              <<67, 42, 10>>,                           \* "C*\n"
              <<94, 10>> >>                             \* "^\n"

HEADER == <<33, 84, 121, 112, 101, 58, 66, 97, 110, 107, 10>>   \* "!Type:Bank\n"

NoCall == [fn |-> "none"]

\* The locals of one loop iteration, as kept in the history.
Locals(pos, found, f, qifdate, emitted, outFrom) ==
    [scan0 |-> pos, block_start |-> found.startptr, block_after |-> found.endptr,
     dtposted |-> f.dtposted, trnamt |-> f.trnamt, name |-> f.name,
     memo |-> f.memo, qifdate |-> qifdate, emitted |-> emitted,
     outFrom |-> outFrom]

\* One iteration that writes a record.
EmitRecord ==
    /\ pc = "loop"
    /\ \E found \in {find_next_stmttrn(buf, scan)} :
        /\ found.ret = 1
        /\ Field(buf, found.startptr, TAG_TRNAMT) # <<>>
        /\ \E f \in {Fields(buf, found.startptr)} :
            /\ \E qifdate \in {DateFallback(f.dtposted, DateFirstPass(f.dtposted))} :
                /\ fout' = fout \o Block(f, qifdate, memoFlag)
                /\ records' = Append(records,
                      Locals(scan, found, f, qifdate, TRUE, Len(fout) + 1))
            /\ printMemoWarning' = MemoWarning(f.memo, memoFlag, printMemoWarning)
            /\ numTransactions' = numTransactions + 1
        /\ scan' = found.endptr
    /\ UNCHANGED <<buf, memoFlag, pc, call>>

\* Variant: a skipped record is counted.
SkipRecord_counted ==
    /\ pc = "loop"
    /\ \E found \in {find_next_stmttrn(buf, scan)} :
        /\ found.ret = 1
        /\ Field(buf, found.startptr, TAG_TRNAMT) = <<>>
        /\ \E f \in {Fields(buf, found.startptr)} :
            /\ records' = Append(records,
                  Locals(scan, found, f, DateFirstPass(f.dtposted), FALSE,
                         Len(fout) + 1))
        /\ scan' = found.endptr
        /\ numTransactions' = numTransactions + 1
    /\ UNCHANGED <<buf, memoFlag, fout, printMemoWarning, pc, call>>

\* Variant: the skip path leaves the scan cursor where it is.
SkipRecord_stuck ==
    /\ pc = "loop"
    /\ \E found \in {find_next_stmttrn(buf, scan)} :
        /\ found.ret = 1
        /\ Field(buf, found.startptr, TAG_TRNAMT) = <<>>
    /\ UNCHANGED vars

\* One iteration that skips a record without an amount.
SkipRecord ==
    /\ pc = "loop"
    /\ \E found \in {find_next_stmttrn(buf, scan)} :
        /\ found.ret = 1
        /\ Field(buf, found.startptr, TAG_TRNAMT) = <<>>
        /\ \E f \in {Fields(buf, found.startptr)} :
            /\ records' = Append(records,
                  Locals(scan, found, f, DateFirstPass(f.dtposted), FALSE,
                         Len(fout) + 1))
        /\ scan' = found.endptr
    /\ UNCHANGED <<buf, memoFlag, fout, numTransactions, printMemoWarning, pc, call>>

\* find_next_stmttrn returns 0: the loop is left, the file closed.
Finish ==
    /\ pc = "loop"
    /\ find_next_stmttrn(buf, scan).ret = 0
    /\ pc' = "done"
    /\ UNCHANGED <<buf, memoFlag, scan, fout, numTransactions, printMemoWarning,
                   records, call>>

---------------------------------------------------------------------------
(* Input buffers: up to MaxRecords records drawn from the variants below,   *)
(* followed by a trailer.                                                   *)

\* <STMTTRN><DTPOSTED>20251128</DTPOSTED><TRNAMT>1,5</TRNAMT><NAME>Al</NAME>
\* <MEMO>m</MEMO></STMTTRN>
REC_FULL ==
    <<60, 83, 84, 77, 84, 84, 82, 78, 62, 60, 68, 84, 80, 79, 83, 84, 69, 68,
      62, 50, 48, 50, 53, 49, 49, 50, 56, 60, 47, 68, 84, 80, 79, 83, 84, 69,
      68, 62, 60, 84, 82, 78, 65, 77, 84, 62, 49, 44, 53, 60, 47, 84, 82, 78,
      65, 77, 84, 62, 60, 78, 65, 77, 69, 62, 65, 108, 60, 47, 78, 65, 77,
      69, 62, 60, 77, 69, 77, 79, 62, 109, 60, 47, 77, 69, 77, 79, 62, 60,
      47, 83, 84, 77, 84, 84, 82, 78, 62>>

\* <STMTTRN><DTPOSTED>20251128120000<NAME>Bo<MEMO>x</STMTTRN>   (no TRNAMT)
REC_NOAMT ==
    <<60, 83, 84, 77, 84, 84, 82, 78, 62, 60, 68, 84, 80, 79, 83, 84, 69, 68,
      62, 50, 48, 50, 53, 49, 49, 50, 56, 49, 50, 48, 48, 48, 48, 60, 78, 65,
      77, 69, 62, 66, 111, 60, 77, 69, 77, 79, 62, 120, 60, 47, 83, 84, 77,
      84, 84, 82, 78, 62>>

\* <stmttrn type=1><trnamt> 7 </trnamt><memo> </memo></stmttrn>
REC_LOWER ==
    <<60, 115, 116, 109, 116, 116, 114, 110, 32, 116, 121, 112, 101, 61, 49,
      62, 60, 116, 114, 110, 97, 109, 116, 62, 32, 55, 32, 60, 47, 116, 114,
      110, 97, 109, 116, 62, 60, 109, 101, 109, 111, 62, 32, 60, 47, 109,
      101, 109, 111, 62, 60, 47, 115, 116, 109, 116, 116, 114, 110, 62>>

\* <STMTTRN><TRNAMT> </TRNAMT><MEMO>q</MEMO></STMTTRN>
REC_BLANKAMT ==
    <<60, 83, 84, 77, 84, 84, 82, 78, 62, 60, 84, 82, 78, 65, 77, 84, 62, 32,
      60, 47, 84, 82, 78, 65, 77, 84, 62, 60, 77, 69, 77, 79, 62, 113, 60,
      47, 77, 69, 77, 79, 62, 60, 47, 83, 84, 77, 84, 84, 82, 78, 62>>

\* <STMTTRN><DTPOSTED>2025-11-28T12:00:00</DTPOSTED><TRNAMT>1 LF 2</TRNAMT>
\* <NAME>a LF b</NAME><MEMO>c CR LF d</MEMO></STMTTRN>
REC_LONGDATE ==
    <<60, 83, 84, 77, 84, 84, 82, 78, 62, 60, 68, 84, 80, 79, 83, 84, 69, 68,
      62, 50, 48, 50, 53, 45, 49, 49, 45, 50, 56, 84, 49, 50, 58, 48, 48, 58,
      48, 48, 60, 47, 68, 84, 80, 79, 83, 84, 69, 68, 62, 60, 84, 82, 78, 65,
      77, 84, 62, 49, 10, 50, 60, 47, 84, 82, 78, 65, 77, 84, 62, 60, 78, 65,
      77, 69, 62, 97, 10, 98, 60, 47, 78, 65, 77, 69, 62, 60, 77, 69, 77, 79,
      62, 99, 13, 10, 100, 60, 47, 77, 69, 77, 79, 62, 60, 47, 83, 84, 77,
      84, 84, 82, 78, 62>>

\* <STMTTRN><TRNAMT>9<MEMO>z   (no </STMTTRN>)
TRAIL_UNCLOSED ==
    <<60, 83, 84, 77, 84, 84, 82, 78, 62, 60, 84, 82, 78, 65, 77, 84, 62, 57,
      60, 77, 69, 77, 79, 62, 122>>

\* <STMTTRN   (no '>')
TRAIL_NOGT ==
    <<60, 83, 84, 77, 84, 84, 82, 78>>

Variants == <<REC_FULL, REC_NOAMT, REC_LOWER, REC_BLANKAMT, REC_LONGDATE>>

Trailers == <<<<>>, TRAIL_UNCLOSED, TRAIL_NOGT>>

RECURSIVE Concat(_)
Concat(ss) == IF ss = <<>> THEN <<>> ELSE Head(ss) \o Concat(Tail(ss))

\* The buffers of at most max records.
Buffers(max) ==
    UNION {{Concat([i \in 1..n |-> Variants[f[i]]]) \o Trailers[t] :
              f \in [1..n -> 1..Len(Variants)], t \in 1..Len(Trailers)} :
           n \in 0..max}

\* The state when the record loop is entered: the header is written.
Entry(max) ==
    /\ buf \in Buffers(max)
    /\ memoFlag \in BOOLEAN
    /\ scan = 1
    /\ fout = <<HEADER>>
    /\ numTransactions = 0
    /\ printMemoWarning = FALSE
    /\ pc = "loop"
    /\ records = <<>>
    /\ call = NoCall

Init == Entry(MaxRecords)

Next == EmitRecord \/ SkipRecord \/ Finish

Spec == Init /\ [][Next]_vars

\* main is one sequential loop: an iteration that can run does run.
InitLive == Entry(MaxLiveRecords)

SpecLive == InitLive /\ [][Next]_vars /\ WF_vars(Next)

---------------------------------------------------------------------------
(* The tag extractor alone: extract_tag_content applied to one C string.    *)

\* The pieces a slice is built from:
\* "<NAME>", "<name>", "</NAME>", "</naMe>", "<MEMO>", "Al", "<"
TagTokens ==
    << <<60, 78, 65, 77, 69, 62>>,
       <<60, 110, 97, 109, 101, 62>>,
       <<60, 47, 78, 65, 77, 69, 62>>,
       <<60, 47, 110, 97, 77, 101, 62>>,
       <<60, 77, 69, 77, 79, 62>>,
       <<65, 108>>,
       <<60>> >>

\* n times the letter 'a'
Filler(n) == [i \in 1..n |-> 97]

\* Slices whose content is about MAX_FIELD long, closed or not.
LongSlices ==
    {OpenTag(TAG_NAME) \o Filler(n) \o tail :
        n \in (MAX_FIELD - 2)..(MAX_FIELD - 1 + MaxOverrun),
        tail \in {<<>>, CloseTag(TAG_NAME), OpenTag(TAG_MEMO)}}

Slices ==
    LongSlices \cup
    UNION {{Concat([i \in 1..n |-> TagTokens[f[i]]]) :
              f \in [1..n -> 1..Len(TagTokens)]} : n \in 0..MaxTagTokens}

Idle ==
    /\ buf = <<>>
    /\ memoFlag = FALSE
    /\ scan = 1
    /\ fout = <<>>
    /\ numTransactions = 0
    /\ printMemoWarning = FALSE
    /\ records = <<>>

InitTag ==
    /\ Idle
    /\ pc = "call"
    /\ \E s \in Slices, tag \in {TAG_NAME, TAG_MEMO} :
          call = [fn |-> "extract_tag_content", arg |-> s, tag |-> tag,
                  ret |-> -1, ret2 |-> -1, out |-> <<>>]

\* extract_tag_content(arg, tag, out, sizeof(out)) with out zero-initialised.
TagStep ==
    /\ pc = "call"
    /\ call.fn = "extract_tag_content"
    /\ \E r \in {extract_tag_content(call.arg, 1, call.tag, MAX_FIELD)} :
          call' = [call EXCEPT !.ret = r.ret, !.out = r.out]
    /\ pc' = "done"
    /\ UNCHANGED <<buf, memoFlag, scan, fout, numTransactions, printMemoWarning,
                   records>>

SpecTag == InitTag /\ [][TagStep]_vars

---------------------------------------------------------------------------
(* The date conversion alone: main's handling of one trimmed DTPOSTED.      *)

\* '1', '9', 'T'
DateChars == {49, 57, 84}

DateTokens == UNION {[1..n -> DateChars] : n \in 0..MaxDateLen}

InitDate ==
    /\ Idle
    /\ pc = "call"
    /\ \E tok \in DateTokens :
          call = [fn |-> "date", arg |-> tok, tag |-> TAG_DTPOSTED,
                  ret |-> -1, ret2 |-> -1, out |-> <<>>]

\* ret: the first conversion; ret2: the retry on the first 8 characters (-1
\* when it is not attempted); out: qifdate as written on the D line.
DateStep ==
    /\ pc = "call"
    /\ call.fn = "date"
    /\ call' = [call EXCEPT
          !.ret = ofxdate_to_mmddyyyy(call.arg, <<>>, QIFDATE_SIZE).ret,
          !.ret2 = IF ofxdate_to_mmddyyyy(call.arg, <<>>, QIFDATE_SIZE).ret = 0
                      /\ Len(call.arg) >= 8
                   THEN ofxdate_to_mmddyyyy(Prefix(call.arg, 8), <<>>, QIFDATE_SIZE).ret
                   ELSE -1,
          !.out = DateFallback(call.arg, DateFirstPass(call.arg))]
    /\ pc' = "done"
    /\ UNCHANGED <<buf, memoFlag, scan, fout, numTransactions, printMemoWarning,
                   records>>

SpecDate == InitDate /\ [][DateStep]_vars

---------------------------------------------------------------------------
(* Properties *)

\* The strings written for the i-th located record.
OutTo(i) == IF i < Len(records) THEN records[i + 1].outFrom - 1 ELSE Len(fout)
BlockOf(i) == SubSeq(fout, records[i].outFrom, OutTo(i))

\* The content of the i-th located record: from block_start up to its
\* closing </STMTTRN>; and a field extracted from that content alone.
SpanContent(i) ==
    SubSeq(buf, records[i].block_start,
           records[i].block_after - Len(STMTTRN_CLOSE) - 1)
InSpan(i, tag) ==
    trim_inplace(extract_tag_content(SpanContent(i), 1, tag, MAX_FIELD).out)

\* The output file as text, and its lines (each ended by a line feed).
OutText == Concat(fout)
LineEnds == {k \in 1..Len(OutText) : OutText[k] = 10}
LineEnd(j) == IF j = 0 THEN 0
              ELSE CHOOSE k \in LineEnds : Cardinality({m \in LineEnds : m <= k}) = j
OutLines == [j \in 1..Cardinality(LineEnds) |->
                SubSeq(OutText, LineEnd(j - 1) + 1, LineEnd(j) - 1)]
StartsWith(l, c) == Len(l) >= 1 /\ l[1] = c

\* The number of record blocks D, P, [M], T, C*, ^ that the lines from i on
\* consist of; -1 when they are no sequence of such blocks.
RECURSIVE CountBlocks(_, _)
CountBlocks(L, i) ==
    IF i > Len(L) THEN 0
    ELSE IF i + 4 > Len(L) \/ ~StartsWith(L[i], 68) \/ ~StartsWith(L[i + 1], 80)
    THEN -1
    ELSE LET t == IF StartsWith(L[i + 2], 77) THEN i + 3 ELSE i + 2
         IN  IF t + 2 > Len(L) \/ ~StartsWith(L[t], 84)
                \/ L[t + 1] # <<67, 42>> \/ L[t + 2] # <<94>>
             THEN -1
             ELSE LET rest == CountBlocks(L, t + 3)
                  IN  IF rest = -1 THEN -1 ELSE rest + 1

\* The date token fails the conversion as a whole and on its first 8
\* characters.
DateUnparseable(tok) == Len(tok) < 8 \/ \E k \in 1..8 : tok[k] \notin 48..57

\* C1: every located record's four fields are the ones extracted from the
\* record's own span; a tag that occurs only after the record's </STMTTRN>
\* contributes nothing, so a tag missing in the span gives the empty string.
C1_FieldsFromSpanOnly ==
    \A i \in DOMAIN records :
        /\ records[i].dtposted = InSpan(i, TAG_DTPOSTED)
        /\ records[i].trnamt = InSpan(i, TAG_TRNAMT)
        /\ records[i].name = Sanitize(InSpan(i, TAG_NAME))
        /\ records[i].memo = Sanitize(InSpan(i, TAG_MEMO))

\* C2: a record whose TRNAMT is absent from the record, or empty after
\* trimming, writes nothing and is not counted, wherever it stands among the
\* other records.
C2_NoAmountNoOutput ==
    /\ \A i \in DOMAIN records :
          InSpan(i, TAG_TRNAMT) = <<>> => ~records[i].emitted /\ BlockOf(i) = <<>>
    /\ numTransactions <=
          Cardinality({i \in DOMAIN records : InSpan(i, TAG_TRNAMT) # <<>>})

C5_OutputShape ==
    /\ OutText # <<>> /\ OutText[Len(OutText)] = 10
    /\ OutLines[1] = SubSeq(HEADER, 1, Len(HEADER) - 1)
    /\ CountBlocks(OutLines, 2) = numTransactions

\* C6: a trimmed date token of 8 or more characters whose first 8 are digits
\* is written as MM/DD/YYYY from characters 5-6, 7-8 and 1-4 (counted from
\* 1), whatever follows; with a non-digit among the first 8 the conversion
\* fails, and so does the retry on the first 8 characters.
C6_DateFromFirstEight ==
    (pc = "done" /\ Len(call.arg) >= 8) =>
        LET tok == call.arg
        IN  IF \A k \in 1..8 : tok[k] \in 48..57
            THEN /\ call.ret = 1
                 /\ call.out = <<tok[5], tok[6], 47, tok[7], tok[8], 47,
                                 tok[1], tok[2], tok[3], tok[4]>>
            ELSE call.ret = 0 /\ call.ret2 = 0

C6_Witness ==
    /\ pc = "done"
    /\ call.arg = <<49, 57, 57, 57, 49, 57, 57, 49, 84>>
    /\ call.out = <<49, 57, 47, 57, 49, 47, 49, 57, 57, 57>>

\* C7: when the date token of an emitted record fails the conversion both
\* ways, the D line carries the raw trimmed DTPOSTED token verbatim, for
\* tokens of every length.
C7_RawDateVerbatim ==
    \A i \in DOMAIN records :
        (records[i].emitted /\ DateUnparseable(records[i].dtposted)) =>
            BlockOf(i)[1] = <<68>> \o records[i].dtposted \o <<10>>

\* C8: tag extraction.  With first(w, from) the first case-insensitive
\* occurrence of w at or after from: no open marker, no result; else the
\* content runs from the end of the first open marker to the first close
\* marker after it, or without one to the next '<', or else to the end.
Lower(c) == IF c >= 65 /\ c <= 90 THEN c + 32 ELSE c
Occurs(s, i, w) ==
    /\ i + Len(w) - 1 <= Len(s)
    /\ \A k \in 1..Len(w) : Lower(s[i + k - 1]) = Lower(w[k])
Opens == {i \in 1..Len(call.arg) : Occurs(call.arg, i, <<60>> \o call.tag \o <<62>>)}
ContentStart == Min(Opens) + Len(call.tag) + 2
Closes == {i \in ContentStart..Len(call.arg) :
              Occurs(call.arg, i, <<60, 47>> \o call.tag \o <<62>>)}
NextLt == {i \in ContentStart..Len(call.arg) : call.arg[i] = 60}
ContentEnd == IF Closes # {} THEN Min(Closes) - 1
              ELSE IF NextLt # {} THEN Min(NextLt) - 1
              ELSE Len(call.arg)
TagContent == SubSeq(call.arg, ContentStart, ContentEnd)

\* C8 as claimed: the content is exactly that text.
C8_ExactContent ==
    pc = "done" =>
        IF Opens = {} THEN call.ret = 0
        ELSE call.ret = 1 /\ call.out = TagContent

\* C8 as amended: the content is that text cut to its first MAX_FIELD - 1
\* characters.
C8_TruncatedContent ==
    pc = "done" =>
        IF Opens = {} THEN call.ret = 0
        ELSE /\ call.ret = 1
             /\ call.out = SubSeq(TagContent, 1,
                   IF Len(TagContent) > MAX_FIELD - 1 THEN MAX_FIELD - 1
                   ELSE Len(TagContent))

C8_Witness ==
    /\ pc = "done"
    /\ call.ret = 1
    /\ Opens # {} /\ Closes = {} /\ NextLt # {}
    /\ Len(TagContent) > MAX_FIELD - 1
    /\ Len(call.out) = MAX_FIELD - 1

C10_LoopTerminates ==
    /\ <>(pc = "done")
    /\ [](\A i \in DOMAIN records : records[i].block_after > records[i].scan0)
    /\ [][records' # records =>
            /\ Len(records') = Len(records) + 1
            /\ records'[Len(records')].scan0 = scan
            /\ scan' = records'[Len(records')].block_after]_vars
    /\ [][pc' # pc => find_next_stmttrn(buf, scan).ret = 0]_vars
    /\ [][pc = "loop" /\ find_next_stmttrn(buf, scan).ret = 0 => records' = records]_vars
    /\ [][pc = "done" => fout' = fout /\ numTransactions' = numTransactions]_vars

C10_Witness ==
    /\ pc = "done"
    /\ Len(records) = 2
    /\ \E i \in DOMAIN records : records[i].emitted
    /\ \E i \in DOMAIN records : ~records[i].emitted
    /\ scan <= Len(buf)

====
